---- MODULE Spec2Model ----
(***************************************************************************)
(* Model of core/processador.py (ProcessadorULTRADATA): the exact-key      *)
(* duplicate finder encontrar_duplicidades and the column profiler         *)
(* analisar_coluna, applied to an in-memory table (a pandas DataFrame).    *)
(*                                                                         *)
(* A DataFrame is a record [columns, index, rows]: the set of column       *)
(* names, the sequence of index labels (0..n-1 for a freshly loaded        *)
(* table) and the sequence of rows, each row a function from the column    *)
(* set to a nullable cell.  A call's outcome is a record [kind,            *)
(* duplicados, analise]: kind is the Python type of the returned value     *)
(* ("DataFrame", "dict", "None") or the exception that left the call.      *)
(***************************************************************************)
EXTENDS Integers, Sequences, FiniteSets, TLC

VARIABLES df, pc, args, ret, repeat

vars == <<df, pc, args, ret, repeat>>

----------------------------------------------------------------------------
(* Bounds of the model *)

\* longest table with at most one column
MaxRows == 6
\* longest table with two columns
MaxWideRows == 3

(* Program constants *)

\* valores.head(5)
HeadN == 5

NULL == "NaN"
Values == {"A", "B"}
Cell == Values \cup {NULL}

ColumnNames == {"sku", "nome"}
\* column names a caller may ask for; "categoria" is in no table
AskedNames == {"sku", "nome", "categoria"}
Metodos == {"sku", "nome", "combinado"}
ColunasArgs == {<<"sku", "nome">>, <<"sku">>, <<"nome", "sku">>}

----------------------------------------------------------------------------
(* pandas objects *)

\* pd.DataFrame()
EmptyDataFrame == [columns |-> {}, index |-> <<>>, rows |-> <<>>]

RangeIndex(n) == [i \in 1..n |-> i - 1]

TablesOf(colset, maxn) ==
    UNION {{[columns |-> colset, index |-> RangeIndex(n), rows |-> r] :
              r \in [1..n -> [colset -> Cell]]} : n \in 0..maxn}

Tables ==
    UNION {TablesOf(cs, IF Cardinality(cs) > 1 THEN MaxWideRows ELSE MaxRows) :
             cs \in SUBSET ColumnNames}

\* len(df)
len(d) == Len(d.rows)

\* df[nome_coluna]: the column as a sequence of cells
Column(d, c) == [i \in 1..len(d) |-> d.rows[i][c]]

RECURSIVE BoolIndex(_, _, _)
\* s[mask]: the entries of s whose mask entry is True, in order
BoolIndex(s, mask, i) ==
    IF i > Len(s) THEN <<>>
    ELSE (IF mask[i] THEN <<s[i]>> ELSE <<>>) \o BoolIndex(s, mask, i + 1)

\* df[mask]: boolean indexing keeps columns, index labels and row order
Getitem(d, mask) ==
    [columns |-> d.columns,
     index   |-> BoolIndex(d.index, mask, 1),
     rows    |-> BoolIndex(d.rows, mask, 1)]

\* faulty variant: keep='first' marks only the later occurrences
duplicated_keep_first(d, c) ==
    [i \in 1..len(d) |-> \E j \in 1..(i - 1) : d.rows[j][c] = d.rows[i][c]]

\* faulty variant: a missing key never equals another missing key
duplicated_nan_distinct(d, c) ==
    [i \in 1..len(d) |->
        /\ d.rows[i][c] # NULL
        /\ \E j \in (1..len(d)) \ {i} : d.rows[j][c] = d.rows[i][c]]

\* df.duplicated(subset=[c], keep=False): NaN keys compare equal
duplicated(d, c) ==
    [i \in 1..len(d) |->
        \E j \in (1..len(d)) \ {i} : d.rows[j][c] = d.rows[i][c]]

\* series.isna()
isna(s) == [i \in 1..Len(s) |-> s[i] = NULL]

\* series.dropna()
dropna(s) == BoolIndex(s, [i \in 1..Len(s) |-> s[i] # NULL], 1)

\* mask.sum()
sum(mask) == Cardinality({i \in 1..Len(mask) : mask[i]})

\* series.nunique() of a series without nulls
nunique(s) == Cardinality({s[i] : i \in 1..Len(s)})

\* series.head(n).tolist()
head(s, n) == SubSeq(s, 1, IF Len(s) < n THEN Len(s) ELSE n)

----------------------------------------------------------------------------
(* f"{x:.1f}%" *)

Digits == <<"0", "1", "2", "3", "4", "5", "6", "7", "8", "9">>

RECURSIVE IntStr(_)
\* decimal digits of a natural number
IntStr(n) ==
    IF n < 10 THEN <<Digits[n + 1]>>
    ELSE IntStr(n \div 10) \o <<Digits[(n % 10) + 1]>>

\* faulty variant: the rate is truncated instead of rounded
Tenths_truncated(filled, total) == (1000 * filled) \div total

\* filled/total*100 in tenths, rounded to nearest, ties to even (what the
\* .1f conversion does to the double filled/total*100; a tie needs a row
\* count that is a multiple of 16)
Tenths(filled, total) ==
    LET q == (1000 * filled) \div total
        r == (1000 * filled) % total
    IN  IF 2 * r > total \/ (2 * r = total /\ q % 2 = 1) THEN q + 1 ELSE q

\* f"{(filled/total*100):.1f}%"
FormatTaxa(filled, total) ==
    LET t == Tenths(filled, total)
    IN  IntStr(t \div 10) \o <<".", Digits[(t % 10) + 1], "%">>

----------------------------------------------------------------------------
(* ProcessadorULTRADATA *)

NoAnalise ==
    [total |-> 0, preenchidos |-> 0, vazios |-> 0, taxa_preenchimento |-> <<>>,
     valores_unicos |-> 0, exemplos |-> <<>>]

Returned(kind, d, a) == [kind |-> kind, duplicados |-> d, analise |-> a]

NoReturn == Returned("none", EmptyDataFrame, NoAnalise)

\* A call yields the returned value (or exception) and the caller's table
\* as the call leaves it.
Outcome(r, d) == [ret |-> r, df |-> d]

\* faulty variant: the method tag is not looked at
encontrar_duplicidades_any_method(d, colunas, metodo) ==
    IF "sku" \in d.columns
    THEN Outcome(Returned("DataFrame", Getitem(d, duplicated(d, "sku")), NoAnalise), d)
    ELSE Outcome(Returned("DataFrame", EmptyDataFrame, NoAnalise), d)

\* faulty variant: the key is the first entry of colunas
encontrar_duplicidades_first_key(d, colunas, metodo) ==
    IF metodo = "sku" /\ colunas[1] \in d.columns
    THEN Outcome(Returned("DataFrame", Getitem(d, duplicated(d, colunas[1])), NoAnalise), d)
    ELSE Outcome(Returned("DataFrame", EmptyDataFrame, NoAnalise), d)

\* faulty variant: the duplicates are dropped from the caller's table
encontrar_duplicidades_inplace(d, colunas, metodo) ==
    IF metodo = "sku" /\ "sku" \in d.columns
    THEN Outcome(Returned("DataFrame", Getitem(d, duplicated(d, "sku")), NoAnalise),
                 Getitem(d, [i \in 1..len(d) |-> ~duplicated(d, "sku")[i]]))
    ELSE Outcome(Returned("DataFrame", EmptyDataFrame, NoAnalise), d)

encontrar_duplicidades(d, colunas, metodo) ==
    IF metodo = "sku" /\ "sku" \in d.columns
    THEN Outcome(Returned("DataFrame", Getitem(d, duplicated(d, "sku")), NoAnalise), d)
    ELSE Outcome(Returned("DataFrame", EmptyDataFrame, NoAnalise), d)

\* the dict built once the column is known to exist
Analise(d, nome_coluna) ==
    LET valores == dropna(Column(d, nome_coluna))
    IN  IF len(d) = 0
        THEN \* len(valores)/len(df) raises before the dict is built
             Returned("ZeroDivisionError", EmptyDataFrame, NoAnalise)
        ELSE Returned("dict", EmptyDataFrame,
               [total              |-> len(d),
                preenchidos        |-> Len(valores),
                vazios             |-> sum(isna(Column(d, nome_coluna))),
                taxa_preenchimento |-> FormatTaxa(Len(valores), len(d)),
                valores_unicos     |-> nunique(valores),
                exemplos           |-> IF Len(valores) # 0
                                       THEN head(valores, HeadN) ELSE <<>>])

\* faulty variant: the membership test is missing, the lookup raises
analisar_coluna_unchecked(d, nome_coluna) ==
    IF nome_coluna \notin d.columns
    THEN Outcome(Returned("KeyError", EmptyDataFrame, NoAnalise), d)
    ELSE Outcome(Analise(d, nome_coluna), d)

analisar_coluna(d, nome_coluna) ==
    IF nome_coluna \notin d.columns
    THEN Outcome(Returned("None", EmptyDataFrame, NoAnalise), d)
    ELSE Outcome(Analise(d, nome_coluna), d)

----------------------------------------------------------------------------
(* The callers *)

NoArgs == [colunas |-> <<>>, metodo |-> "", nome_coluna |-> ""]

Init ==
    /\ df \in Tables
    /\ pc = "idle"
    /\ args = NoArgs
    /\ ret = NoReturn
    /\ repeat = FALSE

CallEncontrarDuplicidades ==
    /\ \E colunas \in ColunasArgs, metodo \in Metodos :
         LET out == encontrar_duplicidades(df, colunas, metodo)
         IN  /\ df' = out.df
             /\ ret' = out.ret
             /\ args' = [colunas |-> colunas, metodo |-> metodo, nome_coluna |-> ""]
    /\ pc' = "encontrar_duplicidades"
    /\ repeat' = (pc' = pc /\ args' = args)

CallAnalisarColuna ==
    /\ \E nome_coluna \in AskedNames :
         LET out == analisar_coluna(df, nome_coluna)
         IN  /\ df' = out.df
             /\ ret' = out.ret
             /\ args' = [colunas |-> <<>>, metodo |-> "", nome_coluna |-> nome_coluna]
    /\ pc' = "analisar_coluna"
    /\ repeat' = (pc' = pc /\ args' = args)

Next == CallEncontrarDuplicidades \/ CallAnalisarColuna

Spec == Init /\ [][Next]_vars

----------------------------------------------------------------------------
(* Vocabulary of the properties, defined without the operators above *)

CalledEncontrar == pc = "encontrar_duplicidades"
CalledAnalisar == pc = "analisar_coluna"

\* how many rows of d carry the value that row i has in column c
Multiplicity(d, c, i) ==
    Cardinality({j \in 1..len(d) : d.rows[j][c] = d.rows[i][c]})

\* positions of the rows of d whose value in column c occurs at least twice
DupPositions(d, c) == {i \in 1..len(d) : Multiplicity(d, c, i) >= 2}

\* the rows of r are the rows of d at the positions P with all their cells,
\* in d's order, under their original index labels
IsRowsAt(r, d, P) ==
    /\ Len(r.rows) = Cardinality(P)
    /\ Len(r.index) = Len(r.rows)
    /\ \A k \in 1..Len(r.index) : r.index[k] + 1 \in P
    /\ \A k \in 1..(Len(r.index) - 1) : r.index[k] < r.index[k + 1]
    /\ \A k \in 1..Len(r.rows) : r.rows[k] = d.rows[r.index[k] + 1]

\* r is d restricted to the positions P, all columns kept
IsRestriction(r, d, P) == r.columns = d.columns /\ IsRowsAt(r, d, P)

NonNull(d, c) == {i \in 1..len(d) : d.rows[i][c] # NULL}

\* position of the k-th non-null cell of column c
KthNonNull(d, c, k) ==
    CHOOSE i \in NonNull(d, c) : Cardinality({j \in NonNull(d, c) : j <= i}) = k

Min(a, b) == IF a < b THEN a ELSE b

Abs(x) == IF x < 0 THEN -x ELSE x

IsDigit(ch) == \E k \in 1..10 : Digits[k] = ch

DigitVal(ch) == CHOOSE k \in 0..9 : Digits[k + 1] = ch

RECURSIVE ParseNat(_)
ParseNat(s) ==
    IF Len(s) = 0 THEN 0
    ELSE 10 * ParseNat(SubSeq(s, 1, Len(s) - 1)) + DigitVal(s[Len(s)])

\* digits, a point, exactly one digit, then '%'
WellFormedTaxa(s) ==
    /\ Len(s) >= 4
    /\ s[Len(s)] = "%"
    /\ IsDigit(s[Len(s) - 1])
    /\ s[Len(s) - 2] = "."
    /\ \A i \in 1..(Len(s) - 3) : IsDigit(s[i])

\* the rate a well-formed string denotes, in tenths of a percent
TaxaTenths(s) ==
    10 * ParseNat(SubSeq(s, 1, Len(s) - 3)) + DigitVal(s[Len(s) - 1])

----------------------------------------------------------------------------
(* encontrar_duplicidades *)

\* C1: with metodo='sku' on a table that has the 'sku' column, the result is
\* exactly the rows whose 'sku' value occurs at least twice (all occurrences),
\* in table order, with all columns; rows of multiplicity 1 are left out.
C1_DuplicadosExatos ==
    (CalledEncontrar /\ args.metodo = "sku" /\ "sku" \in df.columns) =>
        /\ ret.kind = "DataFrame"
        /\ IsRestriction(ret.duplicados, df, DupPositions(df, "sku"))

\* rows 0 and 2 share a sku, row 1 does not: rows 0 and 2 come back
C1_Witness ==
    /\ CalledEncontrar /\ args.metodo = "sku"
    /\ df.columns = {"sku", "nome"}
    /\ len(df) = 3
    /\ df.rows[1]["sku"] = "A" /\ df.rows[2]["sku"] = "B" /\ df.rows[3]["sku"] = "A"
    /\ df.rows[1]["nome"] # df.rows[3]["nome"]
    /\ ret.duplicados.index = <<0, 2>>

C8_ChavePrimeiraColuna ==
    CalledEncontrar =>
        /\ \A c2 \in ColunasArgs :
              c2[1] = args.colunas[1] =>
                 ret = encontrar_duplicidades(df, c2, args.metodo).ret
        /\ (args.metodo = "sku" /\ args.colunas[1] \in df.columns) =>
              /\ ret.kind = "DataFrame"
              /\ IsRowsAt(ret.duplicados, df, DupPositions(df, args.colunas[1]))

\* C8 amended: the key column is always 'sku' and colunas is not looked at:
\* any two key lists give equal results, and with metodo='sku' on a table
\* that has 'sku' the result is the rows whose 'sku' value occurs twice or more.
C8_ChaveSempreSku ==
    CalledEncontrar =>
        /\ \A c2 \in ColunasArgs :
              ret = encontrar_duplicidades(df, c2, args.metodo).ret
        /\ (args.metodo = "sku" /\ "sku" \in df.columns) =>
              /\ ret.kind = "DataFrame"
              /\ IsRowsAt(ret.duplicados, df, DupPositions(df, "sku"))

\* colunas starts with 'nome'; skus repeat, names do not: the sku rows come back
C8_Witness ==
    /\ CalledEncontrar /\ args.metodo = "sku"
    /\ args.colunas[1] = "nome"
    /\ df.columns = {"sku", "nome"}
    /\ DupPositions(df, "nome") = {}
    /\ DupPositions(df, "sku") # {}
    /\ Len(ret.duplicados.rows) >= 2

\* C10: a missing sku is a key equal to every other missing sku: two or more
\* rows without sku are all in the result, a single such row is not.
C10_SkuNuloComoChave ==
    (CalledEncontrar /\ args.metodo = "sku" /\ "sku" \in df.columns) =>
        LET nulos == {i \in 1..len(df) : df.rows[i]["sku"] = NULL}
            marcados == {ret.duplicados.index[k] + 1 : k \in 1..Len(ret.duplicados.index)}
        IN  /\ ret.kind = "DataFrame"
            /\ Cardinality(nulos) >= 2 => nulos \subseteq marcados
            /\ Cardinality(nulos) = 1 => nulos \cap marcados = {}

\* two rows without sku around a row with one: exactly the two come back
C10_Witness ==
    /\ CalledEncontrar /\ args.metodo = "sku"
    /\ "sku" \in df.columns
    /\ len(df) = 3
    /\ df.rows[1]["sku"] = NULL /\ df.rows[2]["sku"] = "A" /\ df.rows[3]["sku"] = NULL
    /\ ret.duplicados.index = <<0, 2>>

----------------------------------------------------------------------------
(* analisar_coluna *)

\* C3: for a column name that is not a column of the table (the empty table
\* included) the result is None and nothing is raised.
C3_ColunaAusente ==
    (CalledAnalisar /\ args.nome_coluna \notin df.columns) => ret.kind = "None"

\* a table with a column but no rows, asked for another column
C3_Witness ==
    /\ CalledAnalisar
    /\ df.columns = {"sku"}
    /\ len(df) = 0
    /\ args.nome_coluna = "nome"
    /\ ret.kind = "None"

\* C4: for every table and every column present the result is a profile
\* with preenchidos + vazios = total = number of rows.
C4_ContagensFecham ==
    (CalledAnalisar /\ args.nome_coluna \in df.columns) =>
        /\ ret.kind = "dict"
        /\ ret.analise.preenchidos + ret.analise.vazios = ret.analise.total
        /\ ret.analise.total = len(df)

\* C5: on the table without rows, for a column present, the call does not
\* raise: it returns a profile with total = 0 and a defined fill rate.
C5_TabelaVaziaNaoFalha ==
    (CalledAnalisar /\ args.nome_coluna \in df.columns /\ len(df) = 0) =>
        /\ ret.kind = "dict"
        /\ ret.analise.total = 0
        /\ WellFormedTaxa(ret.analise.taxa_preenchimento)

\* C6: on a table with rows, taxa_preenchimento is filled/total*100 rounded
\* to one fractional digit, written with exactly one fractional digit and a
\* trailing '%', between "0.0%" and "100.0%"; 3 of 5 gives "60.0%".
C6_TaxaPreenchimento ==
    (CalledAnalisar /\ args.nome_coluna \in df.columns /\ len(df) > 0) =>
        LET s == ret.analise.taxa_preenchimento
            filled == Cardinality(NonNull(df, args.nome_coluna))
            total == len(df)
        IN  /\ ret.kind = "dict"
            /\ WellFormedTaxa(s)
            /\ 2 * Abs(TaxaTenths(s) * total - 1000 * filled) <= total
            /\ TaxaTenths(s) >= 0 /\ TaxaTenths(s) <= 1000
            /\ (filled = 3 /\ total = 5) => s = <<"6", "0", ".", "0", "%">>

\* the column [null, X, X, null, Y] of the scenario
C6_Witness ==
    /\ CalledAnalisar /\ args.nome_coluna \in df.columns
    /\ Column(df, args.nome_coluna) = <<NULL, "A", "A", NULL, "B">>
    /\ ret.analise.taxa_preenchimento = <<"6", "0", ".", "0", "%">>

\* C7: for every table and every column present, exemplos is the first
\* min(5, filled) non-null values in row order, repeats kept, nulls skipped;
\* never more than 5 entries, empty when the column has no non-null value.
C7_Exemplos ==
    (CalledAnalisar /\ args.nome_coluna \in df.columns) =>
        LET c == args.nome_coluna
            ex == ret.analise.exemplos
        IN  /\ ret.kind = "dict"
            /\ Len(ex) = Min(HeadN, Cardinality(NonNull(df, c)))
            /\ \A k \in 1..Len(ex) : ex[k] = df.rows[KthNonNull(df, c, k)][c]
            /\ Len(ex) <= 5
            /\ NonNull(df, c) = {} => ex = <<>>

----------------------------------------------------------------------------
(* both operations *)

\* C9: a call leaves the caller's table as it was (rows, order, columns,
\* values), and a call repeated with the same arguments returns the same.
C9_TabelaIntacta ==
    [][/\ df' = df
       /\ (pc' = pc /\ args' = args) => ret' = ret]_vars

\* the same profile asked twice of a column with missing values
C9_Witness ==
    /\ repeat
    /\ CalledAnalisar
    /\ ret.kind = "dict"
    /\ ret.analise.vazios > 0
    /\ ret.analise.preenchidos > 0

====
